---------------------------- MODULE Spec2Model ----------------------------
(***************************************************************************)
(* A model of the Huffman codec of rald/huffman-dev:                       *)
(*   huffman/pqueue.h      the binary min-heap and the tree nodes          *)
(*   huffman-01/enc.c      the container encoder                           *)
(*   huffman-01/dec.c      the container decoder                           *)
(*   huffman-00/enc.c      the first variant's tree builder and codes      *)
(*                                                                         *)
(* Spec      is the pipeline: enc.c main on an input buffer, the container *)
(*           handed over (possibly damaged on the way), dec.c main on it.  *)
(* SpecTable applies the tree builders and code generators of both         *)
(*           variants to frequency tables.                                 *)
(***************************************************************************)
EXTENDS Integers, Sequences, FiniteSets, TLC

(***************************************************************************)
(* Bounds of the model.                                                    *)
(***************************************************************************)
\* Longest input buffer drawn by Init (all shorter ones are drawn too).
MaxLen == 3
\* Number of distinct byte values the drawn inputs and tables use.
NumSyms == 3
\* Largest count in the small frequency tables of SpecTable.
MaxFreq == 2
\* Largest number of entries of the Fibonacci frequency tables of SpecTable.
MaxFib == 35
\* Largest version number a damaged header carries.
MaxVersion == 3
\* SpecPQ: the largest maxN given to PQinit, and the largest frequency of a
\* node given to PQinsert.
MaxPQ == 4
MaxKey == 2

(***************************************************************************)
(* Program constants.                                                      *)
(***************************************************************************)
MAXN == 256
MAX_CHARS == 256
MAGIC_NUMBER == 1213548102      \* 0x48554646
VERSION == 1
HEADER_SIZE == 30               \* sizeof(HuffHeader), packed
ENTRY_SIZE == 5                 \* sizeof(FreqEntry), packed
CODE_BITS == 32                 \* width of the uint32_t path accumulator
CRC_POLY_HI == 60856            \* 0xEDB8, high half of 0xEDB88320
CRC_POLY_LO == 33568            \* 0x8320, low half of 0xEDB88320

\* The byte values the inputs are drawn from: 'a', 'b', 'c', ...
Alphabet == 97 .. (97 + NumSyms - 1)

\* The null pointer, and the content of memory malloc returned and nothing
\* has written yet.
NULL == [nil |-> TRUE]
UNINIT == [uninit |-> TRUE]
\* A byte of malloc'd memory that nothing has written yet.
UNINIT_BYTE == 0 - 1

Pow2(k) == 2 ^ k

(***************************************************************************)
(* uint32_t values whose high bit matters are kept as their two 16-bit     *)
(* halves, [hi, lo]: the value is hi * 65536 + lo.                         *)
(***************************************************************************)
\* TRUE, with v evaluated on the way: an operator's argument is otherwise
\* evaluated where it is first used, which nests the turns of a loop.
Evaluated(v) == v = v

\* a ^ b on the low n bits of two naturals
RECURSIVE XorBits(_, _, _)
XorBits(a, b, n) ==
  IF n = 0 THEN 0 ELSE ((a + b) % 2) + 2 * XorBits(a \div 2, b \div 2, n - 1)

\* of an int 0 <= n < 2^31
U32FromInt(n) == [hi |-> n \div 65536, lo |-> n % 65536]
U32Ones == [hi |-> 65535, lo |-> 65535]
U32Xor(a, b) == [hi |-> XorBits(a.hi, b.hi, 16), lo |-> XorBits(a.lo, b.lo, 16)]
\* a >> s for 0 <= s <= 16
U32Shr(a, s) ==
  [hi |-> a.hi \div Pow2(s),
   lo |-> (a.lo \div Pow2(s)) + (a.hi % Pow2(s)) * Pow2(16 - s)]
\* a << 1 on an unsigned 32-bit value: bit 31 is dropped.
U32Shl1(a) == [hi |-> (2 * a.hi + (a.lo \div 32768)) % 65536, lo |-> (2 * a.lo) % 65536]
U32Or1(a) == [a EXCEPT !.lo = a.lo + (1 - (a.lo % 2))]
U32LowByte(a) == a.lo % 256
\* bit k of a, 0 <= k <= 31
U32Bit(a, k) == IF k < 16 THEN (a.lo \div Pow2(k)) % 2 ELSE (a.hi \div Pow2(k - 16)) % 2

\* What (code >> s) & 1 yields on a uint32_t. A shift count of 32 or more is
\* undefined in C: the builds either take the count modulo 32 ("wrap", the
\* x86 and AArch64 shift instructions) or shift everything out ("zero").
ShiftOutcomes == {"wrap", "zero"}
U32ShrBit(code, s, ub) ==
  IF s < CODE_BITS THEN U32Bit(code, s)
  ELSE IF ub = "wrap" THEN U32Bit(code, s % CODE_BITS) ELSE 0

(***************************************************************************)
(* CRC32 (enc.c and dec.c hold the same two functions).                    *)
(***************************************************************************)
CRC_POLY == [hi |-> CRC_POLY_HI, lo |-> CRC_POLY_LO]

RECURSIVE crc32_round(_, _)
crc32_round(crc, j) ==
  IF j = 8 THEN crc
  ELSE crc32_round(IF U32Bit(crc, 0) = 1 THEN U32Xor(U32Shr(crc, 1), CRC_POLY)
                                 ELSE U32Shr(crc, 1), j + 1)

\* crc32_table[i] as init_crc32 fills it.
crc32_table(i) == crc32_round(U32FromInt(i), 0)

RECURSIVE crc32_loop(_, _, _)
crc32_loop(bytes, i, crc) ==
  IF i > Len(bytes) \/ crc.lo < 0 THEN crc
  ELSE crc32_loop(bytes, i + 1,
         U32Xor(crc32_table(U32LowByte(U32Xor(crc, U32FromInt(bytes[i])))),
                U32Shr(crc, 8)))

crc32(bytes) == U32Xor(crc32_loop(bytes, 1, U32Ones), U32Ones)

(***************************************************************************)
(* pqueue.h: nodes and the priority queue.  A queue is the record          *)
(* [heap, n, maxN]; heap has the slots 0..maxN of the malloc'd array.      *)
(***************************************************************************)
newNode(ch, f, l, r) == [ch |-> ch % 256, freq |-> f, left |-> l, right |-> r]

IsLeaf(node) == node.left = NULL /\ node.right = NULL

PQinit(maxN) == [heap |-> [k \in 0 .. maxN |-> UNINIT], n |-> 0, maxN |-> maxN]

RECURSIVE PercolateUp(_, _, _)
PercolateUp(heap, k, item) ==
  IF k > 1 /\ heap[k \div 2].freq > item.freq
  THEN PercolateUp([heap EXCEPT ![k] = heap[k \div 2]], k \div 2, item)
  ELSE [heap EXCEPT ![k] = item]

\* The mutant has no capacity check.
PQinsertMutNoCheck(pq, item) ==
  IF pq = NULL THEN pq
  ELSE [pq EXCEPT !.n = pq.n + 1, !.heap = PercolateUp(pq.heap, pq.n + 1, item)]

PQinsert(pq, item) ==
  IF pq = NULL \/ pq.n >= pq.maxN THEN pq
  ELSE [pq EXCEPT !.n = pq.n + 1, !.heap = PercolateUp(pq.heap, pq.n + 1, item)]

\* The mutant always descends to the left child.
RECURSIVE PercolateDownMutLeft(_, _, _, _)
PercolateDownMutLeft(heap, n, k, last) ==
  IF 2 * k <= n
  THEN LET j == 2 * k
       IN  IF last.freq <= heap[j].freq
           THEN [heap EXCEPT ![k] = last]
           ELSE PercolateDownMutLeft([heap EXCEPT ![k] = heap[j]], n, j, last)
  ELSE [heap EXCEPT ![k] = last]

RECURSIVE PercolateDown(_, _, _, _)
PercolateDown(heap, n, k, last) ==
  IF 2 * k <= n
  THEN LET j0 == 2 * k
           j  == IF j0 < n /\ heap[j0].freq > heap[j0 + 1].freq THEN j0 + 1 ELSE j0
       IN  IF last.freq <= heap[j].freq
           THEN [heap EXCEPT ![k] = last]
           ELSE PercolateDown([heap EXCEPT ![k] = heap[j]], n, j, last)
  ELSE [heap EXCEPT ![k] = last]

\* PQdelmin returns the node and leaves the queue changed: [node, pq].
PQdelmin(pq) ==
  IF pq = NULL \/ pq.n = 0 THEN [node |-> NULL, pq |-> pq]
  ELSE LET min  == pq.heap[1]
           last == pq.heap[pq.n]
           n1   == pq.n - 1
       IN  IF n1 = 0 THEN [node |-> min, pq |-> [pq EXCEPT !.n = 0]]
           ELSE [node |-> min,
                 pq   |-> [pq EXCEPT !.n = n1,
                                     !.heap = PercolateDown(pq.heap, n1, 1, last)]]

\* The slots of heap the percolate-up loop of PQinsert reads or writes.
RECURSIVE UpTouched(_, _, _)
UpTouched(heap, k, item) ==
  IF k > 1
  THEN IF heap[k \div 2].freq > item.freq
       THEN {k, k \div 2} \cup UpTouched(heap, k \div 2, item)
       ELSE {k, k \div 2}
  ELSE {k}

PQinsertTouched(pq, item) ==
  IF pq = NULL \/ pq.n >= pq.maxN THEN {}
  ELSE UpTouched(pq.heap, pq.n + 1, item)

\* The slots of heap the percolate-down loop of PQdelmin reads or writes.
RECURSIVE DownTouched(_, _, _, _)
DownTouched(heap, n, k, last) ==
  IF 2 * k <= n
  THEN LET j0 == 2 * k
           j  == IF j0 < n /\ heap[j0].freq > heap[j0 + 1].freq THEN j0 + 1 ELSE j0
           read == IF j0 < n THEN {j0, j0 + 1} ELSE {j0}
       IN  IF last.freq <= heap[j].freq
           THEN read \cup {k}
           ELSE read \cup {k} \cup DownTouched(heap, n, j, last)
  ELSE {k}

PQdelminTouched(pq) ==
  IF pq = NULL \/ pq.n = 0 THEN {}
  ELSE IF pq.n - 1 = 0 THEN {1, pq.n}
  ELSE {1, pq.n} \cup DownTouched(pq.heap, pq.n - 1, 1, pq.heap[pq.n])


(***************************************************************************)
(* huffman-01/enc.c: frequency table, tree, codes.                         *)
(***************************************************************************)
ZeroFreq == [s \in 0 .. MAXN - 1 |-> 0]

RECURSIVE buildFreqLoop(_, _, _)
buildFreqLoop(bytes, i, freq) ==
  IF i > Len(bytes) THEN freq
  ELSE buildFreqLoop(bytes, i + 1, [freq EXCEPT ![bytes[i]] = freq[bytes[i]] + 1])

buildFreqTable(bytes) == buildFreqLoop(bytes, 1, ZeroFreq)

\* One turn of `for (i = 0; i < MAXN; i++)` in buildHuffmanTree; st is
\* [pq, symbols].
EncInsertStep(freq, i, st) ==
  IF freq[i] > 0
  THEN [pq |-> PQinsert(st.pq, newNode(i, freq[i], NULL, NULL)),
        symbols |-> st.symbols + 1]
  ELSE st

\* The turns i = lo, lo + 1, .., hi of that loop, in this order (the range is
\* halved to keep the evaluation shallow).
RECURSIVE EncInsertLeaves(_, _, _, _)
EncInsertLeaves(freq, lo, hi, st) ==
  IF lo > hi THEN st
  ELSE IF lo = hi THEN EncInsertStep(freq, lo, st)
  ELSE LET mid == (lo + hi) \div 2
           half == EncInsertLeaves(freq, lo, mid, st)
       IN  IF half.symbols >= 0 THEN EncInsertLeaves(freq, mid + 1, hi, half) ELSE half

\* The mutant makes the second extracted node the left child.
EncMergeStepMutSwap(st) ==
  LET d1 == PQdelmin(st.pq)
      d2 == PQdelmin(d1.pq)
      merged == newNode(0, d1.node.freq + d2.node.freq, d2.node, d1.node)
  IN  [pq |-> PQinsert(d2.pq, merged), symbols |-> st.symbols - 1]

\* The mutant leaves the counter as it is.
EncMergeStepMutNoDec(st) ==
  LET d1 == PQdelmin(st.pq)
      d2 == PQdelmin(d1.pq)
      merged == newNode(0, d1.node.freq + d2.node.freq, d1.node, d2.node)
  IN  [pq |-> PQinsert(d2.pq, merged), symbols |-> st.symbols]

\* The mutant gives the new node the frequency of its right child.
EncMergeStepMutNoSum(st) ==
  LET d1 == PQdelmin(st.pq)
      d2 == PQdelmin(d1.pq)
      merged == newNode(0, d2.node.freq, d1.node, d2.node)
  IN  [pq |-> PQinsert(d2.pq, merged), symbols |-> st.symbols - 1]

\* The body of `while (symbols > 1)`: left = delmin; right = delmin;
\* insert(merged); symbols--.
EncMergeStep(st) ==
  LET d1 == PQdelmin(st.pq)
      d2 == PQdelmin(d1.pq)
      merged == newNode(0, d1.node.freq + d2.node.freq, d1.node, d2.node)
  IN  [pq |-> PQinsert(d2.pq, merged), symbols |-> st.symbols - 1]

\* `while (symbols > 1) body`, for at most `turns` turns: the first half of
\* the turns, then the rest.  symbols is at most MAXN on entry and falls by
\* one per turn, so MAXN turns run the loop to its end.
RECURSIVE EncMergeLoop(_, _)
EncMergeLoop(st, turns) ==
  IF turns = 0 \/ ~(st.symbols > 1) THEN st
  ELSE IF turns = 1 THEN EncMergeStep(st)
  ELSE EncMergeLoop(EncMergeLoop(st, turns \div 2), turns - (turns \div 2))

EncBuildHuffmanTree(freq) ==
  LET st == EncInsertLeaves(freq, 0, MAXN - 1, [pq |-> PQinit(MAXN), symbols |-> 0])
  IN  IF st.symbols = 0 THEN NULL
      ELSE IF st.symbols = 1 THEN PQdelmin(st.pq).node
      ELSE PQdelmin(EncMergeLoop(st, MAXN).pq).node

\* The bytes calloc((depth + 7) / 8, 1) holds after the packing loop; b counts
\* the bytes from 0.
PackedByte(code, depth, b, ub) ==
  LET bit(i) == IF i < depth THEN U32ShrBit(code, depth - 1 - i, ub) ELSE 0
  IN  128 * bit(8 * b) + 64 * bit(8 * b + 1) + 32 * bit(8 * b + 2) + 16 * bit(8 * b + 3)
      + 8 * bit(8 * b + 4) + 4 * bit(8 * b + 5) + 2 * bit(8 * b + 6) + bit(8 * b + 7)

PackBits(code, depth, ub) ==
  [b \in 1 .. ((depth + 7) \div 8) |-> PackedByte(code, depth, b - 1, ub)]

\* memset(codes, 0, sizeof(codes)): no bytes behind code, len 0
NoCodes == [s \in 0 .. MAXN - 1 |-> [code |-> <<>>, len |-> 0]]

\* code is the uint32_t path accumulator; len is a uint8_t.
RECURSIVE generateCodes(_, _, _, _, _)
generateCodes(node, codes, code, depth, ub) ==
  IF node = NULL \/ ~Evaluated(<<codes, code>>) THEN codes
  ELSE IF IsLeaf(node)
  THEN [codes EXCEPT ![node.ch] = [code |-> PackBits(code, depth, ub), len |-> depth % 256]]
  ELSE LET c1 == IF node.left # NULL
                 THEN generateCodes(node.left, codes, U32Shl1(code), depth + 1, ub)
                 ELSE codes
       IN  IF node.right # NULL
           THEN generateCodes(node.right, c1, U32Or1(U32Shl1(code)), depth + 1, ub)
           ELSE c1

\* The mutant walks a bare leaf like any other tree.
EncCodesMutNoLeafCase(root, ub) == generateCodes(root, NoCodes, U32FromInt(0), 0, ub)

\* main, "Generate codes": a bare leaf gets the one-bit code 0.
EncCodes(root, ub) ==
  IF root.left # NULL \/ root.right # NULL
  THEN generateCodes(root, NoCodes, U32FromInt(0), 0, ub)
  ELSE [NoCodes EXCEPT ![root.ch] = [code |-> <<0>>, len |-> 1]]

\* Bit number bit (0 is the first) of a stored code, as compress reads it.
CodeBit(entry, bit) == (entry.code[(bit \div 8) + 1] \div Pow2(7 - (bit % 8))) % 2

\* The stored code as its sequence of bits.
CodeSeq(entry) == [i \in 1 .. entry.len |-> CodeBit(entry, i - 1)]

(***************************************************************************)
(* huffman-01/enc.c: the bit buffer.                                       *)
(***************************************************************************)
bitBufferInit(initial_size) ==
  [data |-> <<>>, size |-> 0, capacity |-> initial_size, bit_buffer |-> 0, bits_used |-> 0]

RECURSIVE GrowCapacity(_, _)
GrowCapacity(new_cap, want) ==
  IF new_cap < want THEN GrowCapacity(new_cap * 2, want) ELSE new_cap

bitBufferEnsure(buf, needed) ==
  IF buf.size + needed >= buf.capacity
  THEN [buf EXCEPT !.capacity = GrowCapacity(buf.capacity * 2, buf.size + needed)]
  ELSE buf

\* buf->data[buf->size++] = byte
PutByte(buf, byte) == [buf EXCEPT !.data = Append(buf.data, byte), !.size = buf.size + 1]

\* for (i = count - 1; i >= 0; i--): bit_buffer and bits_used are uint8_t.
RECURSIVE bitBufferWriteLoop(_, _, _)
bitBufferWriteLoop(buf, bits, i) ==
  IF i < 0 THEN buf
  ELSE LET b1 == [buf EXCEPT !.bit_buffer = (buf.bit_buffer * 2 + ((bits \div Pow2(i)) % 2)) % 256,
                             !.bits_used = (buf.bits_used + 1) % 256]
       IN  bitBufferWriteLoop(
             IF b1.bits_used = 8
             THEN [PutByte(bitBufferEnsure(b1, 1), b1.bit_buffer)
                     EXCEPT !.bit_buffer = 0, !.bits_used = 0]
             ELSE b1, bits, i - 1)

bitBufferWriteBits(buf, bits, count) == bitBufferWriteLoop(buf, bits, count - 1)

\* bits_used is left as it is: main computes padding_bits from it.
bitBufferFlush(buf) ==
  IF buf.bits_used > 0
  THEN LET b1 == [buf EXCEPT !.bit_buffer = (buf.bit_buffer * Pow2(8 - buf.bits_used)) % 256]
       IN  PutByte(bitBufferEnsure(b1, 1), b1.bit_buffer)
  ELSE buf

(***************************************************************************)
(* The container on disk: the header record, then the bytes after it.      *)
(***************************************************************************)
\* The 5 bytes of a packed FreqEntry: ch, then freq little-endian.
FreqEntryBytes(ch, f) ==
  <<ch, f % 256, (f \div 256) % 256, (f \div 65536) % 256, (f \div 16777216) % 256>>

\* One turn of the loop of writeFreqTable; st is [bytes, tree_size, budget,
\* failed]: the bytes that reached the file, the count, the number of fwrite
\* calls that will still succeed, and whether `return 0` was taken.
writeFreqStep(freq, i, st) ==
  IF st.failed \/ ~(freq[i] > 0) THEN st
  ELSE IF st.budget = 0 THEN [st EXCEPT !.failed = TRUE]
  ELSE [st EXCEPT !.bytes = st.bytes \o FreqEntryBytes(i, freq[i]),
                  !.tree_size = (st.tree_size + 1) % 65536,
                  !.budget = st.budget - 1]

RECURSIVE writeFreqLoop(_, _, _, _)
writeFreqLoop(freq, lo, hi, st) ==
  IF lo > hi THEN st
  ELSE IF lo = hi THEN writeFreqStep(freq, lo, st)
  ELSE LET mid == (lo + hi) \div 2
           half == writeFreqLoop(freq, lo, mid, st)
       IN  IF half.budget >= 0 THEN writeFreqLoop(freq, mid + 1, hi, half) ELSE half

\* writeFreqTable: the bytes that reached the file and the value returned.
writeFreqTable(freq, budget) ==
  LET st == writeFreqLoop(freq, 0, MAXN - 1,
              [bytes |-> <<>>, tree_size |-> 0, budget |-> budget, failed |-> FALSE])
  IN  [bytes |-> st.bytes, ret |-> IF st.failed THEN 0 ELSE st.tree_size]

\* One turn of the loop of readFreqTable; bytes are the file's bytes after
\* the header, st is [ok, freq], ok FALSE once `return 0` was taken.
readFreqStep(bytes, i, st) ==
  IF ~st.ok THEN st
  ELSE IF Len(bytes) < ENTRY_SIZE * (i + 1) THEN [st EXCEPT !.ok = FALSE]
  ELSE LET at == ENTRY_SIZE * i
           ch == bytes[at + 1]
           f  == bytes[at + 2] + 256 * bytes[at + 3] + 65536 * bytes[at + 4]
                 + 16777216 * bytes[at + 5]
       IN  [st EXCEPT !.freq[ch] = f]

RECURSIVE readFreqLoop(_, _, _, _)
readFreqLoop(bytes, lo, hi, st) ==
  IF lo > hi THEN st
  ELSE IF lo = hi THEN readFreqStep(bytes, lo, st)
  ELSE LET mid == (lo + hi) \div 2
           half == readFreqLoop(bytes, lo, mid, st)
       IN  IF half.ok \in BOOLEAN THEN readFreqLoop(bytes, mid + 1, hi, half) ELSE half

readFreqTable(bytes, tree_size) ==
  readFreqLoop(bytes, 0, tree_size - 1, [ok |-> TRUE, freq |-> ZeroFreq])

(***************************************************************************)
(* huffman-01/dec.c: the tree rebuilt from the table read back.            *)
(***************************************************************************)
DecInsertStep(freq, i, st) ==
  IF freq[i] > 0
  THEN [pq |-> PQinsert(st.pq, newNode(i, freq[i], NULL, NULL)),
        symbols |-> st.symbols + 1]
  ELSE st

RECURSIVE DecInsertLeaves(_, _, _, _)
DecInsertLeaves(freq, lo, hi, st) ==
  IF lo > hi THEN st
  ELSE IF lo = hi THEN DecInsertStep(freq, lo, st)
  ELSE LET mid == (lo + hi) \div 2
           half == DecInsertLeaves(freq, lo, mid, st)
       IN  IF half.symbols >= 0 THEN DecInsertLeaves(freq, mid + 1, hi, half) ELSE half

DecMergeStep(st) ==
  LET d1 == PQdelmin(st.pq)
      d2 == PQdelmin(d1.pq)
      merged == newNode(0, d1.node.freq + d2.node.freq, d1.node, d2.node)
  IN  [pq |-> PQinsert(d2.pq, merged), symbols |-> st.symbols - 1]

RECURSIVE DecMergeLoop(_, _)
DecMergeLoop(st, turns) ==
  IF turns = 0 \/ ~(st.symbols > 1) THEN st
  ELSE IF turns = 1 THEN DecMergeStep(st)
  ELSE DecMergeLoop(DecMergeLoop(st, turns \div 2), turns - (turns \div 2))

DecBuildHuffmanTree(freq) ==
  LET st == DecInsertLeaves(freq, 0, MAXN - 1, [pq |-> PQinit(MAXN), symbols |-> 0])
  IN  IF st.symbols = 0 THEN NULL
      ELSE IF st.symbols = 1 THEN PQdelmin(st.pq).node
      ELSE PQdelmin(DecMergeLoop(st, MAXN).pq).node

\* bitReaderReadBit: [bit, reader]; bit is -1 when the data is used up.
bitReaderInit(bytes, size) ==
  [data |-> bytes, size |-> size, pos |-> 0, bit_buffer |-> 0, bits_available |-> 0]

bitReaderReadBit(reader) ==
  IF reader.bits_available = 0 /\ reader.pos >= reader.size
  THEN [bit |-> -1, reader |-> reader]
  ELSE LET r1 == IF reader.bits_available = 0
                 THEN [reader EXCEPT !.bit_buffer = reader.data[reader.pos + 1],
                                     !.pos = reader.pos + 1,
                                     !.bits_available = 8]
                 ELSE reader
       IN  [bit |-> (r1.bit_buffer \div 128) % 2,
            reader |-> [r1 EXCEPT !.bit_buffer = (r1.bit_buffer * 2) % 256,
                                  !.bits_available = r1.bits_available - 1]]


(***************************************************************************)
(* The pipeline's state.                                                   *)
(***************************************************************************)
VARIABLES
  data,             \* the input file's bytes
  enc_pc,           \* where enc.c main stands
  file_size,        \* enc.c main
  freq,             \* enc.c main: uint32_t freq[MAXN]
  root,             \* enc.c main: the tree
  codes,            \* enc.c main: CodeEntry codes[MAXN]
  compressed,       \* enc.c compress: the BitBuffer
  cur,              \* enc.c compress: the loop indices [i, bit]
  header,           \* enc.c main: HuffHeader
  tree_size,        \* enc.c main: what writeFreqTable returned
  outfile,          \* the encoder's output file
  tamper,           \* what happened to the container on its way
  infile,           \* the decoder's input file
  verify,           \* dec.c main: 0 with --no-verify
  dec_pc,           \* where dec.c main stands
  d_header,         \* dec.c main: HuffHeader
  d_freq,           \* dec.c main: uint32_t freq[MAXN]
  compressed_data,  \* dec.c main (<<>> until it is read)
  d_root,           \* dec.c main: the tree rebuilt
  reader,           \* dec.c: the BitReader
  decompressed,     \* dec.c decompress: output (<<>> until it is allocated)
  output_pos,       \* dec.c decompress
  current,          \* dec.c decompress
  dec_outfile,      \* the decoder's output file: NoFile or [body]
  t_pc,             \* SpecTable: which functions have been applied
  t_freq,           \* SpecTable: the frequency table
  t_ub,             \* SpecTable: what the build makes of an oversized shift
  t_root01,         \* SpecTable: huffman-01 buildHuffmanTree(t_freq)
  t_codes01,        \* SpecTable: huffman-01 codes
  t_root00,         \* SpecTable: huffman-00 buildHuffmanTree(t_freq)
  t_codes00,        \* SpecTable: huffman-00 codes
  first,            \* SpecTwice: the container an earlier run of enc.c wrote
  queue,            \* SpecPQ: the PQ *pq of pqueue.h
  q_call,           \* SpecPQ: the last call on it, [op, item, ret]
  m_pc,             \* SpecMerge: where buildHuffmanTree stands
  m_freq,           \* SpecMerge: its argument freq[]
  m_st,             \* SpecMerge: its locals [pq, symbols]
  m_left,           \* SpecMerge: left of the last turn of its while loop
  m_right,          \* SpecMerge: right of that turn
  m_turns,          \* SpecMerge: the turns of the while loop so far
  m_root,           \* SpecMerge: what it returned
  pc00,             \* Spec00: where huffman-00 enc.c stands
  original_file_size, \* huffman-00 encodeFile
  freq00,           \* huffman-00 encodeFile: unsigned freq[MAX_CHARS]
  root00,           \* huffman-00 encodeFile: the tree
  codes00,          \* huffman-00 encodeFile: char* codes[MAX_CHARS]
  file00,           \* the .enc file huffman-00 enc.c writes
  tamper00,         \* Spec00: what happened to the .enc file on its way
  in00,             \* the .enc file huffman-00 dec.c reads
  dpc00,            \* Spec00: where huffman-00 dec.c stands
  dsize00,          \* huffman-00 decodeFile: original_file_size
  dfreq00,          \* huffman-00 decodeFile: unsigned freq[MAX_CHARS]
  droot00,          \* huffman-00 decodeFile: the tree
  current_node,     \* huffman-00 decodeFile
  bitpos00,         \* huffman-00 decodeFile: [byte, i], the bytes read and the bit index
  decoded_count,    \* huffman-00 decodeFile
  out00             \* the .dec file huffman-00 dec.c writes

encVars == <<enc_pc, file_size, freq, root, codes, compressed, cur, header, tree_size, outfile>>
decVars == <<tamper, infile, verify, dec_pc, d_header, d_freq, compressed_data, d_root,
             reader, decompressed, output_pos, current, dec_outfile>>
tabVars == <<t_pc, t_freq, t_ub, t_root01, t_codes01, t_root00, t_codes00>>
pqVars == <<queue, q_call>>
mrgVars == <<m_pc, m_freq, m_st, m_left, m_right, m_turns, m_root>>
enc00Vars == <<pc00, original_file_size, freq00, root00, codes00, file00>>
dec00Vars == <<tamper00, in00, dpc00, dsize00, dfreq00, droot00, current_node, bitpos00,
               decoded_count, out00>>
h00Vars == <<enc00Vars, dec00Vars>>
sideVars == <<first, pqVars, mrgVars, h00Vars>>
vars == <<data, encVars, decVars, tabVars, sideVars>>

\* A file that does not exist, and one fopen(.., "wb") has just created.
NoFile == [nofile |-> TRUE]
EmptyFile == [header |-> NULL, body |-> <<>>]

\* The inputs: every buffer over Alphabet up to MaxLen bytes, "aaabbc", nine
\* times 0x41, and "abababab" (eight code bits: a payload without filler).
Inputs == UNION {[1 .. n -> Alphabet] : n \in 0 .. MaxLen} \cup {<<97, 97, 97, 98, 98, 99>>}
          \cup {[i \in 1 .. 9 |-> 65]} \cup {<<97, 98, 97, 98, 97, 98, 97, 98>>}

TabIdle == /\ t_pc = "off" /\ t_freq = NULL /\ t_ub = "wrap" /\ t_root01 = NULL
           /\ t_codes01 = NULL /\ t_root00 = NULL /\ t_codes00 = NULL

PipeIdle ==
  /\ enc_pc = "start" /\ file_size = 0 /\ freq = NULL /\ root = NULL /\ codes = NULL
  /\ compressed = NULL /\ cur = [i |-> 0, bit |-> 0] /\ header = NULL /\ tree_size = 0
  /\ outfile = NoFile
  /\ tamper = NULL /\ infile = NoFile /\ verify = TRUE /\ dec_pc = "idle"
  /\ d_header = NULL /\ d_freq = NULL /\ compressed_data = <<>> /\ d_root = NULL
  /\ reader = NULL /\ decompressed = <<>> /\ output_pos = 0 /\ current = NULL
  /\ dec_outfile = NoFile

H00Idle ==
  /\ pc00 = "off" /\ original_file_size = 0 /\ freq00 = NULL /\ root00 = NULL
  /\ codes00 = NULL /\ file00 = NoFile
  /\ tamper00 = NULL /\ in00 = NoFile /\ dpc00 = "idle" /\ dsize00 = 0 /\ dfreq00 = NULL
  /\ droot00 = NULL /\ current_node = UNINIT /\ bitpos00 = [byte |-> 0, i |-> 0]
  /\ decoded_count = 0 /\ out00 = NoFile

SideIdle ==
  /\ H00Idle
  /\ first = NULL /\ queue = NULL /\ q_call = NULL
  /\ m_pc = "off" /\ m_freq = NULL /\ m_st = NULL /\ m_left = NULL /\ m_right = NULL
  /\ m_turns = 0 /\ m_root = NULL

Init == data \in Inputs /\ PipeIdle /\ TabIdle /\ SideIdle

(***************************************************************************)
(* enc.c main, from "Read input file" on.                                  *)
(***************************************************************************)
EncFail == enc_pc' = "failed"

\* file_size = getFileSize(..); if (file_size <= 0) error; fread
EncReadInput ==
  /\ enc_pc = "start"
  /\ file_size' = Len(data)
  /\ enc_pc' = IF Len(data) <= 0 THEN "failed" ELSE "freq"
  /\ UNCHANGED <<data, freq, root, codes, compressed, cur, header, tree_size, outfile,
                 decVars, tabVars, sideVars>>

EncBuildFreqTable ==
  /\ enc_pc = "freq"
  /\ freq' = buildFreqTable(data)
  /\ enc_pc' = "tree"
  /\ UNCHANGED <<data, file_size, root, codes, compressed, cur, header, tree_size, outfile,
                 decVars, tabVars, sideVars>>

EncBuildTree ==
  /\ enc_pc = "tree"
  /\ root' = EncBuildHuffmanTree(freq)
  /\ enc_pc' = IF root' = NULL THEN "failed" ELSE "codes"
  /\ UNCHANGED <<data, file_size, freq, codes, compressed, cur, header, tree_size, outfile,
                 decVars, tabVars, sideVars>>

EncGenerateCodes ==
  /\ enc_pc = "codes"
  /\ \E ub \in ShiftOutcomes : codes' = EncCodes(root, ub)
  /\ compressed' = bitBufferInit(file_size)
  /\ cur' = [i |-> 0, bit |-> 0]
  /\ enc_pc' = "compress"
  /\ UNCHANGED <<data, file_size, freq, root, header, tree_size, outfile, decVars, tabVars, sideVars>>

\* One call of bitBufferWriteBits(buf, bit_val, 1) in compress, with the
\* check of entry->len that precedes the first one for each input byte.
EncCompressBit ==
  /\ enc_pc = "compress"
  /\ cur.i < file_size
  /\ LET entry == codes[data[cur.i + 1]]
     IN  IF entry.len = 0
         THEN /\ compressed' = NULL
              /\ EncFail
              /\ UNCHANGED cur
         ELSE /\ compressed' = bitBufferWriteBits(compressed, CodeBit(entry, cur.bit), 1)
              /\ cur' = IF cur.bit + 1 < entry.len
                        THEN [cur EXCEPT !.bit = cur.bit + 1]
                        ELSE [i |-> cur.i + 1, bit |-> 0]
              /\ UNCHANGED enc_pc
  /\ UNCHANGED <<data, file_size, freq, root, codes, header, tree_size, outfile,
                 decVars, tabVars, sideVars>>

EncCompressFlush ==
  /\ enc_pc = "compress"
  /\ cur.i >= file_size
  /\ compressed' = bitBufferFlush(compressed)
  /\ enc_pc' = "header"
  /\ UNCHANGED <<data, file_size, freq, root, codes, cur, header, tree_size, outfile,
                 decVars, tabVars, sideVars>>

\* The mutant takes the padding for the bits used.
PaddingBitsMutUsed(buf) == buf.bits_used

PaddingBits(buf) == IF buf.bits_used > 0 THEN 8 - buf.bits_used ELSE 0

\* The mutant leaves the byte as the stack held it.
ReservedByteMutUninit == {0, UNINIT_BYTE}

\* What `.reserved = 0` in the initializer of header makes of that byte.
ReservedByte == {0}

\* "Calculate checksum", "Prepare header"
EncPrepareHeader ==
  /\ enc_pc = "header"
  /\ \E r \in ReservedByte :
       header' = [magic |-> MAGIC_NUMBER, version |-> VERSION,
                  original_size |-> file_size, compressed_size |-> compressed.size,
                  checksum |-> crc32(data), tree_size |-> 0,
                  padding_bits |-> PaddingBits(compressed), reserved |-> r]
  /\ enc_pc' = "open"
  /\ UNCHANGED <<data, file_size, freq, root, codes, compressed, cur, tree_size, outfile,
                 decVars, tabVars, sideVars>>

\* fopen(output_file, "wb") succeeds or not.
EncOpenOutput ==
  /\ enc_pc = "open"
  /\ \/ outfile' = EmptyFile /\ enc_pc' = "write_header"
     \/ EncFail /\ UNCHANGED outfile
  /\ UNCHANGED <<data, file_size, freq, root, codes, compressed, cur, header, tree_size,
                 decVars, tabVars, sideVars>>

\* writeHeader(outfile, &header) succeeds or not.
EncWriteHeader ==
  /\ enc_pc = "write_header"
  /\ \/ outfile' = [outfile EXCEPT !.header = header] /\ enc_pc' = "write_table"
     \/ EncFail /\ UNCHANGED outfile
  /\ UNCHANGED <<data, file_size, freq, root, codes, compressed, cur, header, tree_size,
                 decVars, tabVars, sideVars>>

\* tree_size = writeFreqTable(outfile, freq): every fwrite succeeds, or the
\* one after the first budget of them fails.
EncWriteFreqTable ==
  /\ enc_pc = "write_table"
  /\ \E budget \in 0 .. MAXN :
        LET w == writeFreqTable(freq, budget)
        IN  /\ budget <= Cardinality({s \in 0 .. MAXN - 1 : freq[s] > 0})
            /\ outfile' = [outfile EXCEPT !.body = outfile.body \o w.bytes]
            /\ tree_size' = w.ret
            /\ enc_pc' = IF w.ret = 0 THEN "failed" ELSE "update_header"
  /\ UNCHANGED <<data, file_size, freq, root, codes, compressed, cur, header,
                 decVars, tabVars, sideVars>>

\* The mutant sets the field but leaves the header in the file as first written.
EncUpdateHeaderMutStale ==
  /\ enc_pc = "update_header"
  /\ header' = [header EXCEPT !.tree_size = tree_size]
  /\ enc_pc' = "write_data"
  /\ UNCHANGED <<data, file_size, freq, root, codes, compressed, cur, tree_size, outfile,
                 decVars, tabVars, sideVars>>

\* header.tree_size = tree_size; fseek 0; writeHeader (unchecked); fseek end
EncUpdateHeader ==
  /\ enc_pc = "update_header"
  /\ header' = [header EXCEPT !.tree_size = tree_size]
  /\ outfile' = [outfile EXCEPT !.header = header']
  /\ enc_pc' = "write_data"
  /\ UNCHANGED <<data, file_size, freq, root, codes, compressed, cur, tree_size,
                 decVars, tabVars, sideVars>>

\* fwrite(compressed->data, 1, compressed->size, outfile) writes it all, or
\* only the first k bytes.
EncWriteData ==
  /\ enc_pc = "write_data"
  /\ \/ /\ outfile' = [outfile EXCEPT !.body = outfile.body \o compressed.data]
        /\ enc_pc' = "done"
     \/ \E k \in 0 .. compressed.size - 1 :
          /\ outfile' = [outfile EXCEPT !.body = outfile.body \o SubSeq(compressed.data, 1, k)]
          /\ EncFail
  /\ UNCHANGED <<data, file_size, freq, root, codes, compressed, cur, header, tree_size,
                 decVars, tabVars, sideVars>>

EncNext ==
  \/ EncReadInput \/ EncBuildFreqTable \/ EncBuildTree \/ EncGenerateCodes
  \/ EncCompressBit \/ EncCompressFlush \/ EncPrepareHeader \/ EncOpenOutput
  \/ EncWriteHeader \/ EncWriteFreqTable \/ EncUpdateHeader \/ EncWriteData


(***************************************************************************)
(* The container on its way from the encoder to the decoder.               *)
(***************************************************************************)
\* byte with its bit k (0 is the least significant) inverted
FlipBit(byte, k) ==
  IF (byte \div Pow2(k)) % 2 = 1 THEN byte - Pow2(k) ELSE byte + Pow2(k)

\* file with bit b of the packed bitstream inverted; bit 0 is the first bit
\* of the first payload byte.
FlipPayloadBit(file, b) ==
  LET at == Len(file.body) - file.header.compressed_size + (b \div 8) + 1
  IN  [file EXCEPT !.body[at] = FlipBit(file.body[at], 7 - (b % 8))]

BadMagics == {0, 1179014472, MAGIC_NUMBER - 1, MAGIC_NUMBER + 1}

\* What may have happened to the file: nothing, one payload bit inverted, a
\* wrong magic, another version, or an original_size one too large.
Tampers(file) ==
  {[kind |-> "none", arg |-> 0]}
  \cup {[kind |-> "flip", arg |-> b] : b \in 0 .. 8 * file.header.compressed_size - 1}
  \cup {[kind |-> "magic", arg |-> m] : m \in BadMagics}
  \cup {[kind |-> "version", arg |-> v] : v \in (0 .. MaxVersion) \ {VERSION}}
  \cup {[kind |-> "osize", arg |-> file.header.original_size + 1]}

Damage(file, t) ==
  CASE t.kind = "none"    -> file
    [] t.kind = "flip"    -> FlipPayloadBit(file, t.arg)
    [] t.kind = "magic"   -> [file EXCEPT !.header.magic = t.arg]
    [] t.kind = "version" -> [file EXCEPT !.header.version = t.arg]
    [] t.kind = "osize"   -> [file EXCEPT !.header.original_size = t.arg]

\* The encoder has returned 0; the decoder is started on its output file, as
\* written or damaged, with or without --no-verify.
Transfer ==
  /\ enc_pc = "done"
  /\ dec_pc = "idle"
  /\ \E t \in Tampers(outfile) : tamper' = t /\ infile' = Damage(outfile, t)
  /\ verify' \in BOOLEAN
  /\ dec_pc' = "open"
  /\ UNCHANGED <<data, encVars, d_header, d_freq, compressed_data, d_root, reader,
                 decompressed, output_pos, current, dec_outfile, tabVars, sideVars>>

(***************************************************************************)
(* dec.c main, from "Open compressed file" on.                             *)
(***************************************************************************)
DecFail == dec_pc' = "failed"

\* if (file_size <= sizeof(HuffHeader)) error
DecOpen ==
  /\ dec_pc = "open"
  /\ dec_pc' = IF HEADER_SIZE + Len(infile.body) <= HEADER_SIZE THEN "failed"
               ELSE "read_header"
  /\ UNCHANGED <<data, encVars, tamper, infile, verify, d_header, d_freq, compressed_data,
                 d_root, reader, decompressed, output_pos, current, dec_outfile, tabVars, sideVars>>

\* The mutant accepts any magic number.
readHeaderMutNoMagic(h) == h.version <= 1

\* readHeader once fread has filled the header: 1 or 0
readHeader(h) == h.magic = MAGIC_NUMBER /\ ~(h.version > 1)

DecReadHeader ==
  /\ dec_pc = "read_header"
  /\ d_header' = infile.header
  /\ dec_pc' = IF readHeader(infile.header) THEN "read_table" ELSE "failed"
  /\ UNCHANGED <<data, encVars, tamper, infile, verify, d_freq, compressed_data,
                 d_root, reader, decompressed, output_pos, current, dec_outfile, tabVars, sideVars>>

DecReadFreqTable ==
  /\ dec_pc = "read_table"
  /\ LET r == readFreqTable(infile.body, d_header.tree_size)
     IN  /\ d_freq' = r.freq
         /\ dec_pc' = IF r.ok THEN "read_data" ELSE "failed"
  /\ UNCHANGED <<data, encVars, tamper, infile, verify, d_header, compressed_data,
                 d_root, reader, decompressed, output_pos, current, dec_outfile, tabVars, sideVars>>

\* fread(compressed_data, 1, header.compressed_size, infile)
DecReadData ==
  /\ dec_pc = "read_data"
  /\ LET at == ENTRY_SIZE * d_header.tree_size
     IN  IF Len(infile.body) - at < d_header.compressed_size
         THEN DecFail /\ UNCHANGED compressed_data
         ELSE /\ compressed_data' = SubSeq(infile.body, at + 1, at + d_header.compressed_size)
              /\ dec_pc' = "tree"
  /\ UNCHANGED <<data, encVars, tamper, infile, verify, d_header, d_freq,
                 d_root, reader, decompressed, output_pos, current, dec_outfile, tabVars, sideVars>>

DecBuildTree ==
  /\ dec_pc = "tree"
  /\ d_root' = DecBuildHuffmanTree(d_freq)
  /\ dec_pc' = IF d_root' = NULL THEN "failed" ELSE "decompress"
  /\ UNCHANGED <<data, encVars, tamper, infile, verify, d_header, d_freq, compressed_data,
                 reader, decompressed, output_pos, current, dec_outfile, tabVars, sideVars>>

\* bitReaderInit, then decompress up to its loop: the early return, malloc,
\* and the single symbol tree.
DecDecompressStart ==
  /\ dec_pc = "decompress"
  /\ reader = NULL
  /\ reader' = bitReaderInit(compressed_data, d_header.compressed_size)
  /\ IF d_root = NULL \/ d_header.original_size = 0
     THEN DecFail /\ UNCHANGED <<decompressed, output_pos, current>>
     ELSE IF IsLeaf(d_root)
     THEN /\ decompressed' = [i \in 1 .. d_header.original_size |-> d_root.ch]
          /\ dec_pc' = "verify"
          /\ UNCHANGED <<output_pos, current>>
     ELSE /\ decompressed' = [i \in 1 .. d_header.original_size |-> UNINIT_BYTE]
          /\ current' = d_root
          /\ output_pos' = 0
          /\ UNCHANGED dec_pc
  /\ UNCHANGED <<data, encVars, tamper, infile, verify, d_header, d_freq, compressed_data,
                 d_root, dec_outfile, tabVars, sideVars>>

\* What follows `if (bit < 0)`: TRUE for break, FALSE for the error return.
EndWithinPadding(rd, padding_bits) ==
  LET bits_processed == (rd.pos - 1) * 8 + (8 - rd.bits_available)
      total_bits == rd.size * 8
  IN  total_bits - bits_processed <= padding_bits

\* The mutant runs the loop once more.
LoopRunsMutLate(pos, size) == pos <= size

\* The condition of `while (output_pos < original_size)`.
LoopRuns(pos, size) == pos < size

\* One turn of `while (output_pos < original_size)`.
DecDecompressStep ==
  /\ dec_pc = "decompress"
  /\ reader # NULL
  /\ LoopRuns(output_pos, d_header.original_size)
  /\ LET rb == bitReaderReadBit(reader)
         next == IF rb.bit = 0 THEN current.left ELSE current.right
     IN  /\ reader' = rb.reader
         /\ IF rb.bit < 0
            THEN /\ dec_pc' = IF EndWithinPadding(reader, d_header.padding_bits)
                              THEN "verify" ELSE "failed"
                 /\ UNCHANGED <<decompressed, output_pos, current>>
            ELSE IF next = NULL
            THEN DecFail /\ UNCHANGED <<decompressed, output_pos, current>>
            ELSE IF IsLeaf(next)
            THEN IF output_pos >= d_header.original_size
                 THEN /\ dec_pc' = "verify"
                      /\ current' = next
                      /\ UNCHANGED <<decompressed, output_pos>>
                 ELSE /\ decompressed' = [decompressed EXCEPT ![output_pos + 1] = next.ch]
                      /\ output_pos' = output_pos + 1
                      /\ current' = d_root
                      /\ dec_pc' = IF LoopRuns(output_pos', d_header.original_size)
                                   THEN "decompress" ELSE "verify"
            ELSE /\ current' = next
                 /\ UNCHANGED <<decompressed, output_pos, dec_pc>>
  /\ UNCHANGED <<data, encVars, tamper, infile, verify, d_header, d_freq, compressed_data,
                 d_root, dec_outfile, tabVars, sideVars>>

\* What malloc'd memory holds where decompress wrote nothing: any bytes; the
\* model draws them from these.
HeapBytes == Alphabet \cup {0}
Unwritten(out) == {i \in DOMAIN out : out[i] = UNINIT_BYTE}

\* "Verify checksum if requested": the first read of the output buffer.
DecVerify ==
  /\ dec_pc = "verify"
  /\ \E fill \in [Unwritten(decompressed) -> HeapBytes] :
        decompressed' = [i \in DOMAIN decompressed |->
                           IF decompressed[i] = UNINIT_BYTE THEN fill[i] ELSE decompressed[i]]
  /\ dec_pc' = IF verify /\ crc32(decompressed') # d_header.checksum
               THEN "failed" ELSE "open_out"
  /\ UNCHANGED <<data, encVars, tamper, infile, verify, d_header, d_freq, compressed_data,
                 d_root, reader, output_pos, current, dec_outfile, tabVars, sideVars>>

\* fopen(output_file, "wb") succeeds or not.
DecOpenOutput ==
  /\ dec_pc = "open_out"
  /\ \/ dec_outfile' = [body |-> <<>>] /\ dec_pc' = "write"
     \/ DecFail /\ UNCHANGED dec_outfile
  /\ UNCHANGED <<data, encVars, tamper, infile, verify, d_header, d_freq, compressed_data,
                 d_root, reader, decompressed, output_pos, current, tabVars, sideVars>>

\* fwrite(decompressed, 1, header.original_size, outfile) writes it all, or
\* only the first k bytes.
DecWrite ==
  /\ dec_pc = "write"
  /\ \/ dec_outfile' = [body |-> decompressed] /\ dec_pc' = "done"
     \/ \E k \in 0 .. Len(decompressed) - 1 :
          dec_outfile' = [body |-> SubSeq(decompressed, 1, k)] /\ DecFail
  /\ UNCHANGED <<data, encVars, tamper, infile, verify, d_header, d_freq, compressed_data,
                 d_root, reader, decompressed, output_pos, current, tabVars, sideVars>>

DecNext ==
  \/ DecOpen \/ DecReadHeader \/ DecReadFreqTable \/ DecReadData \/ DecBuildTree
  \/ DecDecompressStart \/ DecDecompressStep \/ DecVerify \/ DecOpenOutput \/ DecWrite

Next == EncNext \/ Transfer \/ DecNext

Spec == Init /\ [][Next]_vars

(***************************************************************************)
(* SpecTwice: enc.c run on a buffer, and run once more on the same buffer. *)
(***************************************************************************)
\* The encoder has returned 0; its container is set aside and main is
\* entered again with the same input file.
EncRerun ==
  /\ enc_pc = "done"
  /\ first = NULL
  /\ first' = outfile
  /\ enc_pc' = "start" /\ file_size' = 0 /\ freq' = NULL /\ root' = NULL /\ codes' = NULL
  /\ compressed' = NULL /\ cur' = [i |-> 0, bit |-> 0] /\ header' = NULL /\ tree_size' = 0
  /\ outfile' = NoFile
  /\ UNCHANGED <<data, decVars, tabVars, pqVars, mrgVars, h00Vars>>

NextTwice == EncNext \/ EncRerun

SpecTwice == Init /\ [][NextTwice]_vars

(***************************************************************************)
(* SpecPQ: pqueue.h under any calls.  q_call is the last call: its name,   *)
(* the node given, the node returned, the queue as it was before the call  *)
(* and the slots of heap the call read or wrote.                           *)
(***************************************************************************)
\* The nodes given to PQinsert: a leaf of each frequency, and a second leaf
\* of frequency 0, so that different nodes of one frequency meet.
QItems == {newNode(0, f, NULL, NULL) : f \in 0 .. MaxKey} \cup {newNode(1, 0, NULL, NULL)}

InitPQ == data = <<>> /\ PipeIdle /\ TabIdle /\ SideIdle

\* pq = PQinit(maxN): both malloc succeed, or one fails and pq is NULL.
QInit ==
  /\ q_call = NULL
  /\ \E maxN \in 0 .. MaxPQ :
       /\ queue' \in {PQinit(maxN), NULL}
       /\ q_call' = [op |-> "PQinit", item |-> NULL, ret |-> NULL, was |-> NULL,
                     touched |-> {}]
  /\ UNCHANGED <<data, encVars, decVars, tabVars, h00Vars, first, mrgVars>>

\* PQinsert(pq, item)
QInsert ==
  /\ q_call # NULL
  /\ \E item \in QItems :
       /\ queue' = PQinsert(queue, item)
       /\ q_call' = [op |-> "PQinsert", item |-> item, ret |-> NULL, was |-> queue,
                     touched |-> PQinsertTouched(queue, item)]
  /\ UNCHANGED <<data, encVars, decVars, tabVars, h00Vars, first, mrgVars>>

\* node = PQdelmin(pq)
QDelmin ==
  /\ q_call # NULL
  /\ LET d == PQdelmin(queue)
     IN  /\ queue' = d.pq
         /\ q_call' = [op |-> "PQdelmin", item |-> NULL, ret |-> d.node, was |-> queue,
                       touched |-> PQdelminTouched(queue)]
  /\ UNCHANGED <<data, encVars, decVars, tabVars, h00Vars, first, mrgVars>>

NextPQ == QInit \/ QInsert \/ QDelmin

SpecPQ == InitPQ /\ [][NextPQ]_vars


(***************************************************************************)
(* Properties of the pipeline (Spec).                                      *)
(***************************************************************************)
NoTamper == [kind |-> "none", arg |-> 0]
Tampered(k) == tamper # NULL /\ tamper.kind = k
Distinct(bytes) == {bytes[i] : i \in DOMAIN bytes}

\* The code lengths of bytes[1..i] under the code table tab, summed.
RECURSIVE CodeLenSum(_, _, _)
CodeLenSum(tab, bytes, i) ==
  IF i = 0 THEN 0 ELSE tab[bytes[i]].len + CodeLenSum(tab, bytes, i - 1)

\* C1: round trip.  For every input buffer, the empty one included, the
\* encoder does not give up before it has a container to write, and the
\* decoder run on the container as written decodes exactly the input: where
\* it ends with 0 its output file holds the input, and where it ends with 1
\* it had decoded the input and failed to open or write the output file.
C1_RoundTrip ==
  /\ ~(enc_pc = "failed" /\ header = NULL)
  /\ (tamper = NoTamper /\ dec_pc = "failed" => decompressed = data)
  /\ (tamper = NoTamper /\ dec_pc = "done" => dec_outfile = [body |-> data])

\* C2: tree reproducibility.  Whenever the decoder has built its tree, the
\* table it read back is the encoder's table and its tree is the encoder's
\* tree, node for node (shape, leaf symbols, frequencies).
C2_TreeReproduced == d_root # NULL => d_freq = freq /\ d_root = root

\* C2 witness: the decoder has rebuilt a tree on three symbols, two of them
\* with equal frequency.
C2_Witness ==
  /\ d_root # NULL /\ d_root = root /\ ~IsLeaf(d_root)
  /\ Cardinality(Distinct(data)) = 3 /\ freq[97] = freq[98] /\ freq[97] > 0

\* C4: checksum integrity.  With verification on and an input of at least
\* two distinct byte values, a container with one bit of its payload
\* inverted (filler bits included) never makes the decoder end with 0.
C4_FlipDetected ==
  Tampered("flip") /\ verify /\ Cardinality(Distinct(data)) >= 2 => dec_pc # "done"

\* C5: format rejection.  On a container whose magic is not MAGIC_NUMBER
\* the decoder ends failed as soon as it has read the header: it reads no
\* frequency table, builds no tree and opens no output file.
C5_BadMagicRejected ==
  Tampered("magic") =>
    /\ dec_pc \in {"open", "read_header", "failed"}
    /\ (d_header # NULL => dec_pc = "failed")
    /\ d_freq = NULL /\ d_root = NULL /\ dec_outfile = NoFile

\* C5 witness: the decoder has read a header with a wrong magic and failed.
C5_Witness == Tampered("magic") /\ d_header # NULL /\ dec_pc = "failed"

\* C6: version validation.  The decoder fails on reading a header whose
\* version is not VERSION (0 as well as those above VERSION), and does not
\* fail on reading the header the encoder wrote.
C6_VersionChecked ==
  /\ (Tampered("version") /\ d_header # NULL => dec_pc = "failed")
  /\ (tamper = NoTamper /\ d_header # NULL /\ d_freq = NULL => dec_pc # "failed")

\* C7: size accounting.  In the container of an encoder that ended with 0,
\* original_size is the input length, tree_size is the number of distinct
\* input byte values and of 5-byte entries after the header, these entries
\* are the table's nonzero counts by ascending symbol, and compressed_size is
\* the number of bytes after them, which are the bit buffer's.
C7_SizeAccounting ==
  enc_pc = "done" =>
    LET h  == outfile.header
        at == ENTRY_SIZE * h.tree_size
    IN  /\ h.original_size = Len(data)
        /\ h.tree_size = Cardinality(Distinct(data))
        /\ Len(outfile.body) = at + h.compressed_size
        /\ \A k \in 0 .. h.tree_size - 1 :
              LET ch == outfile.body[ENTRY_SIZE * k + 1]
              IN  /\ freq[ch] > 0
                  /\ k > 0 => outfile.body[ENTRY_SIZE * (k - 1) + 1] < ch
                  /\ SubSeq(outfile.body, ENTRY_SIZE * k + 1, ENTRY_SIZE * k + ENTRY_SIZE)
                       = FreqEntryBytes(ch, freq[ch])
        /\ SubSeq(outfile.body, at + 1, Len(outfile.body)) = compressed.data

\* C7 witness: a finished container with three table entries and a payload.
C7_Witness ==
  /\ enc_pc = "done" /\ outfile.header.tree_size = 3
  /\ outfile.header.compressed_size >= 1 /\ Len(outfile.body) >= 16

\* C8: padding accounting.  While compress runs, the accumulator holds 0..7
\* bits between two calls of bitBufferWriteBits.  Once the header is
\* prepared, padding_bits is in 0..7, equals 8 * compressed_size minus the
\* summed code lengths of the input bytes, is 0 exactly when that sum is a
\* multiple of 8, and the padding_bits low bits of the last payload byte
\* are zero.
C8_PaddingAccounting ==
  /\ (enc_pc = "compress" => compressed.bits_used \in 0 .. 7)
  /\ (header # NULL =>
        LET bits == CodeLenSum(codes, data, Len(data))
            p    == header.padding_bits
        IN  /\ p \in 0 .. 7
            /\ p = 8 * header.compressed_size - bits
            /\ (p = 0 <=> bits % 8 = 0)
            /\ header.compressed_size = compressed.size
            /\ (compressed.size > 0 => compressed.data[compressed.size] % Pow2(p) = 0))

\* C8 witness: "aaabbc" packed: nine code bits in two bytes, seven filler bits.
C8_Witness ==
  /\ header # NULL /\ header.padding_bits = 7 /\ header.compressed_size = 2
  /\ Cardinality(Distinct(data)) = 3 /\ compressed.data = <<31, 0>>

\* C9: empty input.  The encoder does not refuse a zero-byte input: it does
\* not end with 1 before it has a container to write.
C9_EmptyAccepted == ~(data = <<>> /\ enc_pc = "failed" /\ header = NULL)

\* C10: single distinct symbol.  For an input of n >= 1 copies of one byte s:
\* the tree is the bare leaf of s with frequency n; s has the one-bit code 0;
\* the payload is n zero bits in (n + 7) / 8 bytes; and the decoder's output
\* is original_size = n copies of s, with the reader still at position 0
\* and no bit taken.
C10_SingleSymbol ==
  Cardinality(Distinct(data)) = 1 =>
    LET s == data[1]
        n == Len(data)
    IN  /\ (root # NULL => IsLeaf(root) /\ root.ch = s /\ root.freq = n)
        /\ (codes # NULL => codes[s] = [code |-> <<0>>, len |-> 1])
        /\ (header # NULL =>
              /\ header.compressed_size = (n + 7) \div 8
              /\ 8 * header.compressed_size - header.padding_bits = n
              /\ \A i \in 1 .. compressed.size : compressed.data[i] = 0)
        /\ (dec_pc \in {"verify", "open_out", "write", "done"} =>
              /\ (~Tampered("osize") => d_header.original_size = n)
              /\ decompressed = [i \in 1 .. d_header.original_size |-> s]
              /\ reader.pos = 0 /\ reader.bits_available = 0)

\* C10 witness: nine copies of one byte went through both programs.
C10_Witness ==
  /\ Cardinality(Distinct(data)) = 1 /\ Len(data) = 9
  /\ dec_pc = "done" /\ dec_outfile = [body |-> data] /\ reader.pos = 0

\* C12: premature end of the bitstream.  With a tree of at least two leaves,
\* decompress never hands main an output buffer in which fewer than
\* original_size symbols were decoded, whatever padding_bits is and whether
\* or not the checksum is verified afterwards.
C12_PrematureEndFails ==
  ~(/\ dec_pc \in {"verify", "open_out", "write", "done"}
    /\ d_root # NULL /\ ~IsLeaf(d_root)
    /\ output_pos < d_header.original_size)

\* The bits bitReaderReadBit has handed out, and those it has not.
BitsRead(rd) == 8 * rd.pos - rd.bits_available
BitsUnread(rd) == 8 * rd.size - BitsRead(rd)

\* decompress has returned a buffer to main.
Decoded == dec_pc \in {"verify", "open_out", "write", "done"}

C13_State ==
  /\ (d_header # NULL => output_pos <= d_header.original_size)
  /\ (tamper = NoTamper /\ Decoded =>
        IF IsLeaf(d_root) THEN BitsUnread(reader) = 8 * d_header.compressed_size
        ELSE /\ output_pos = d_header.original_size
             /\ BitsUnread(reader) = d_header.padding_bits)

C13_Step ==
  /\ (output_pos' # output_pos =>
        /\ output_pos < d_header.original_size /\ output_pos' = output_pos + 1
        /\ \A i \in DOMAIN decompressed :
              i # output_pos' => decompressed'[i] = decompressed[i])
  /\ (reader # NULL /\ reader' # reader => output_pos < d_header.original_size)

DecodedAll == IsLeaf(d_root) \/ output_pos = d_header.original_size

C14_NoOutputOnFailedDecode ==
  /\ (dec_pc = "failed" => dec_outfile = NoFile)
  /\ (dec_outfile # NoFile =>
        /\ d_header # NULL /\ d_header.magic = MAGIC_NUMBER
        /\ d_freq # NULL /\ d_root # NULL
        /\ DecodedAll
        /\ (verify => crc32(decompressed) = d_header.checksum))

\* The part of it that is the order of the statements of main alone.
C14_OpenedAfterChecks ==
  dec_outfile # NoFile =>
    /\ dec_pc \in {"write", "done", "failed"}
    /\ d_header # NULL /\ d_header.magic = MAGIC_NUMBER
    /\ d_freq # NULL /\ d_root # NULL /\ Len(decompressed) = d_header.original_size
    /\ (verify => crc32(decompressed) = d_header.checksum)

\* C16: deterministic encoding.  When the encoder has run twice on the same
\* buffer and returned 0 both times, the second container is the first one,
\* byte for byte: the same header fields with reserved = 0, the same entries
\* and the same payload with its filler bits.
C16_Deterministic ==
  first # NULL /\ enc_pc = "done" => outfile = first /\ outfile.header.reserved = 0

C16_Witness ==
  /\ first # NULL /\ enc_pc = "done" /\ outfile = first
  /\ outfile.header.tree_size > 1 /\ outfile.header.padding_bits > 0

\* C15: the encoder has no visible partial writes.  Whenever the output file
\* exists it holds a whole container: a header, as many 5-byte entries as the
\* header's tree_size says, and compressed_size bytes of payload.
C15_NoPartialWrites ==
  outfile # NoFile =>
    /\ outfile.header # NULL
    /\ Len(outfile.body) =
         ENTRY_SIZE * outfile.header.tree_size + outfile.header.compressed_size


(***************************************************************************)
(* huffman-00/enc.c: the min-heap (array from 0), the tree, the codes.     *)
(* A heap is the record [array, size]; a node has the fields of struct     *)
(* Node, data kept as the unsigned char it is read back as.                *)
(***************************************************************************)
newNode00(d, f) == [data |-> d % 256, freq |-> f, left |-> NULL, right |-> NULL]

Swap(array, a, b) == [array EXCEPT ![a] = array[b], ![b] = array[a]]

RECURSIVE minHeapify(_, _)
minHeapify(h, idx) ==
  LET left  == 2 * idx + 1
      right == 2 * idx + 2
      s1 == IF left < h.size /\ h.array[left].freq < h.array[idx].freq THEN left ELSE idx
      smallest == IF right < h.size /\ h.array[right].freq < h.array[s1].freq
                  THEN right ELSE s1
  IN  IF smallest # idx
      THEN minHeapify([h EXCEPT !.array = Swap(h.array, smallest, idx)], smallest)
      ELSE h

\* extractMin returns the node and leaves the heap changed: [node, heap].
extractMin(h) ==
  LET temp == h.array[0]
      h1 == [h EXCEPT !.array[0] = h.array[h.size - 1], !.size = h.size - 1]
  IN  [node |-> temp, heap |-> minHeapify(h1, 0)]

RECURSIVE SiftUp00(_, _, _)
SiftUp00(array, i, node) ==
  IF i # 0 /\ node.freq < array[(i - 1) \div 2].freq
  THEN SiftUp00([array EXCEPT ![i] = array[(i - 1) \div 2]], (i - 1) \div 2, node)
  ELSE [array EXCEPT ![i] = node]

insertMinHeap(h, node) ==
  [h EXCEPT !.size = h.size + 1, !.array = SiftUp00(h.array, h.size, node)]

\* for (i = hi; i >= lo; --i) minHeapify(h, i)
RECURSIVE buildMinHeapLoop(_, _, _)
buildMinHeapLoop(h, lo, hi) ==
  IF lo > hi THEN h
  ELSE IF lo = hi THEN minHeapify(h, lo)
  ELSE LET mid == (lo + hi) \div 2
           half == buildMinHeapLoop(h, mid + 1, hi)
       IN  IF half.size >= 0 THEN buildMinHeapLoop(half, lo, mid) ELSE half

buildMinHeap(h) == buildMinHeapLoop(h, 0, ((h.size - 1) - 1) \div 2)

\* One turn of the first loop of buildHuffmanTree.
FillHeapStep00(ftab, i, h) ==
  IF ftab[i] > 0
  THEN [h EXCEPT !.array[h.size] = newNode00(i, ftab[i]), !.size = h.size + 1]
  ELSE h

RECURSIVE FillHeap00(_, _, _, _)
FillHeap00(ftab, lo, hi, h) ==
  IF lo > hi THEN h
  ELSE IF lo = hi THEN FillHeapStep00(ftab, lo, h)
  ELSE LET mid == (lo + hi) \div 2
           half == FillHeap00(ftab, lo, mid, h)
       IN  IF half.size >= 0 THEN FillHeap00(ftab, mid + 1, hi, half) ELSE half

\* The body of `while (minHeap->size != 1)`.
MergeStep00(h) ==
  LET e1 == extractMin(h)
      e2 == extractMin(e1.heap)
      top == [newNode00(36, e1.node.freq + e2.node.freq)
                EXCEPT !.left = e1.node, !.right = e2.node]
  IN  insertMinHeap(e2.heap, top)

\* `while (size != 1) body`, for at most `turns` turns; size is at most
\* MAX_CHARS on entry and falls by one per turn.
RECURSIVE MergeLoop00(_, _)
MergeLoop00(h, turns) ==
  IF turns = 0 \/ ~(h.size # 1) THEN h
  ELSE IF turns = 1 THEN MergeStep00(h)
  ELSE MergeLoop00(MergeLoop00(h, turns \div 2), turns - (turns \div 2))

buildHuffmanTree00(ftab) ==
  LET h == FillHeap00(ftab, 0, MAX_CHARS - 1,
                      [array |-> [k \in 0 .. MAX_CHARS - 1 |-> UNINIT], size |-> 0])
  IN  IF h.size = 0 THEN newNode00(36, 0)
      ELSE IF h.size = 1
      THEN [newNode00(36, h.array[0].freq) EXCEPT !.left = h.array[0]]
      ELSE extractMin(MergeLoop00(buildMinHeap(h), MAX_CHARS)).node

\* storeCodes: st is [codes, current_code]; codes[c] is NULL or [str], the
\* string strdup copied, kept as the sequence of its characters' digits.
RECURSIVE storeCodes(_, _, _)
storeCodes(node, st, top) ==
  LET s1 == IF node.left # NULL /\ Evaluated(st)
            THEN storeCodes(node.left, [st EXCEPT !.current_code[top] = 0], top + 1)
            ELSE st
      s2 == IF node.right # NULL /\ Evaluated(s1)
            THEN storeCodes(node.right, [s1 EXCEPT !.current_code[top] = 1], top + 1)
            ELSE s1
  IN  IF node.left = NULL /\ node.right = NULL
      THEN [s2 EXCEPT !.codes[node.data] = [str |-> [i \in 1 .. top |-> s2.current_code[i - 1]]]]
      ELSE s2

Codes00(tree) ==
  storeCodes(tree, [codes |-> [s \in 0 .. MAX_CHARS - 1 |-> NULL],
                    current_code |-> [k \in 0 .. MAX_CHARS - 1 |-> UNINIT_BYTE]], 0).codes

(***************************************************************************)
(* huffman-00/enc.c encodeFile: the counting loop and the bitstream.       *)
(***************************************************************************)
\* while ((c = fgetc(input_file)) != EOF) { freq[c]++; original_file_size++; }
\* st is [freq, size].
RECURSIVE countLoop00(_, _, _)
countLoop00(bytes, i, st) ==
  IF i > Len(bytes) \/ ~Evaluated(st) THEN st
  ELSE countLoop00(bytes, i + 1,
                   [freq |-> [st.freq EXCEPT ![bytes[i]] = st.freq[bytes[i]] + 1],
                    size |-> st.size + 1])

\* The body of `while (*code)`, from character j of the string on; w is
\* [out, buffer, bit_count], out the bytes fwrite has written.
RECURSIVE putCode00(_, _, _)
putCode00(w, str, j) ==
  IF j > Len(str) \/ ~Evaluated(w) THEN w
  ELSE LET b1 == (w.buffer * 2) % 256
           b2 == IF str[j] = 1 THEN b1 + 1 - (b1 % 2) ELSE b1
       IN  IF w.bit_count + 1 = 8
           THEN putCode00([out |-> Append(w.out, b2), buffer |-> 0, bit_count |-> 0],
                          str, j + 1)
           ELSE putCode00([w EXCEPT !.buffer = b2, !.bit_count = w.bit_count + 1],
                          str, j + 1)

\* while ((c = fgetc(input_file)) != EOF) { code = codes[c]; if (code) ... }
RECURSIVE writeBody00(_, _, _, _)
writeBody00(bytes, i, cds, w) ==
  IF i > Len(bytes) \/ ~Evaluated(w) THEN w
  ELSE writeBody00(bytes, i + 1, cds,
                   IF cds[bytes[i]] # NULL THEN putCode00(w, cds[bytes[i]].str, 1) ELSE w)

\* The mutant writes the last byte without shifting it.
lastByte00MutNoShift(w) == w.buffer

\* buffer <<= (8 - bit_count)
lastByte00(w) == (w.buffer * Pow2(8 - w.bit_count)) % 256

\* "Write any remaining bits in the buffer"
flush00(w) == IF w.bit_count > 0 THEN Append(w.out, lastByte00(w)) ELSE w.out

(***************************************************************************)
(* SpecTable: the tree builders and code generators on frequency tables.   *)
(***************************************************************************)
\* The tables with counts up to MaxFreq on the symbols of Alphabet.
SmallTables ==
  {[s \in 0 .. MAXN - 1 |-> IF s \in Alphabet THEN f[s] ELSE 0] :
     f \in [Alphabet -> 0 .. MaxFreq]}

FibSeq == [k \in 1 .. MaxFib |-> IF k <= 2 THEN 1 ELSE 0]

RECURSIVE FibFill(_, _)
FibFill(f, k) ==
  IF k > MaxFib THEN f ELSE FibFill([f EXCEPT ![k] = f[k - 1] + f[k - 2]], k + 1)

\* Fibonacci[k] for k in 1..MaxFib: 1, 1, 2, 3, 5, ...
Fibonacci == FibFill(FibSeq, 3)

\* The table whose symbols 0..n-1 have the counts 1, 1, 2, 3, 5, ...: each
\* merge of the two least counts stays below the next count but one, so the
\* tree is as deep as a tree on n leaves gets.
FibTable(n) == [s \in 0 .. MAXN - 1 |-> IF s < n THEN Fibonacci[s + 1] ELSE 0]

Tables == SmallTables \cup {FibTable(n) : n \in 2 .. MaxFib}

InitTable ==
  /\ data = <<>> /\ PipeIdle /\ SideIdle
  /\ t_pc = "start" /\ t_freq \in Tables /\ t_ub \in ShiftOutcomes
  /\ t_root01 = NULL /\ t_codes01 = NULL /\ t_root00 = NULL /\ t_codes00 = NULL

\* enc.c (huffman-01): root = buildHuffmanTree(freq)
TabBuild01 ==
  /\ t_pc = "start"
  /\ t_root01' = EncBuildHuffmanTree(t_freq)
  /\ t_pc' = "built01"
  /\ UNCHANGED <<data, encVars, decVars, sideVars, t_freq, t_ub, t_codes01, t_root00, t_codes00>>

\* enc.c (huffman-01) main, "Generate codes", when root is not NULL
TabCodes01 ==
  /\ t_pc = "built01"
  /\ t_codes01' = IF t_root01 = NULL THEN NoCodes ELSE EncCodes(t_root01, t_ub)
  /\ t_pc' = "coded01"
  /\ UNCHANGED <<data, encVars, decVars, sideVars, t_freq, t_ub, t_root01, t_root00, t_codes00>>

\* enc.c (huffman-00): root = buildHuffmanTree(freq, MAX_CHARS)
TabBuild00 ==
  /\ t_pc = "coded01"
  /\ t_root00' = buildHuffmanTree00(t_freq)
  /\ t_pc' = "built00"
  /\ UNCHANGED <<data, encVars, decVars, sideVars, t_freq, t_ub, t_root01, t_codes01, t_codes00>>

\* enc.c (huffman-00): storeCodes(root, codes, current_code, 0)
TabCodes00 ==
  /\ t_pc = "built00"
  /\ t_codes00' = Codes00(t_root00)
  /\ t_pc' = "done"
  /\ UNCHANGED <<data, encVars, decVars, sideVars, t_freq, t_ub, t_root01, t_codes01, t_root00>>

NextTable == TabBuild01 \/ TabCodes01 \/ TabBuild00 \/ TabCodes00

SpecTable == InitTable /\ [][NextTable]_vars

(***************************************************************************)
(* SpecMerge: huffman-01 buildHuffmanTree, one turn of its while loop at a *)
(* time.                                                                   *)
(***************************************************************************)
\* The table of a buffer that holds every byte value once: as many leaves as
\* the queue has room for.
FullTable == [s \in 0 .. MAXN - 1 |-> 1]

InitMerge ==
  /\ data = <<>> /\ PipeIdle /\ TabIdle /\ H00Idle
  /\ first = NULL /\ queue = NULL /\ q_call = NULL
  /\ m_pc = "start" /\ m_freq \in Tables \cup {FullTable}
  /\ m_st = NULL /\ m_left = NULL /\ m_right = NULL /\ m_turns = 0 /\ m_root = NULL

\* PQinit, the loop that inserts the leaves, and the two early returns.
MergeInsert ==
  /\ m_pc = "start"
  /\ LET st == EncInsertLeaves(m_freq, 0, MAXN - 1, [pq |-> PQinit(MAXN), symbols |-> 0])
         single == PQdelmin(st.pq)
     IN  IF st.symbols = 0 THEN m_st' = st /\ m_root' = NULL /\ m_pc' = "done"
         ELSE IF st.symbols = 1
         THEN m_st' = [st EXCEPT !.pq = single.pq] /\ m_root' = single.node /\ m_pc' = "done"
         ELSE m_st' = st /\ m_pc' = "loop" /\ UNCHANGED m_root
  /\ UNCHANGED <<data, encVars, decVars, tabVars, h00Vars, first, pqVars,
                 m_freq, m_left, m_right, m_turns>>

\* One turn of `while (symbols > 1)`.
MergeTurn ==
  /\ m_pc = "loop"
  /\ m_st.symbols > 1
  /\ LET d1 == PQdelmin(m_st.pq)
         d2 == PQdelmin(d1.pq)
     IN  m_left' = d1.node /\ m_right' = d2.node
  /\ m_st' = EncMergeStep(m_st)
  /\ m_turns' = m_turns + 1
  /\ m_pc' = IF m_st'.symbols > 1 THEN "loop" ELSE "return"
  /\ UNCHANGED <<data, encVars, decVars, tabVars, h00Vars, first, pqVars, m_freq, m_root>>

\* root = PQdelmin(pq); return root
MergeReturn ==
  /\ m_pc = "return"
  /\ LET d == PQdelmin(m_st.pq)
     IN  m_root' = d.node /\ m_st' = [m_st EXCEPT !.pq = d.pq]
  /\ m_pc' = "done"
  /\ UNCHANGED <<data, encVars, decVars, tabVars, h00Vars, first, pqVars,
                 m_freq, m_left, m_right, m_turns>>

NextMerge == MergeInsert \/ MergeTurn \/ MergeReturn

SpecMerge == InitMerge /\ [][NextMerge]_vars

(***************************************************************************)
(* Spec00: huffman-00 enc.c on a buffer, the .enc file on its way, and     *)
(* huffman-00 dec.c on it.  pc00 and dpc00 end in "exit0" or "exit1", the  *)
(* exit status of the program.                                             *)
(***************************************************************************)
Init00 ==
  /\ data \in Inputs /\ PipeIdle /\ TabIdle
  /\ first = NULL /\ queue = NULL /\ q_call = NULL
  /\ m_pc = "off" /\ m_freq = NULL /\ m_st = NULL /\ m_left = NULL /\ m_right = NULL
  /\ m_turns = 0 /\ m_root = NULL
  /\ pc00 = "start" /\ original_file_size = 0 /\ freq00 = NULL /\ root00 = NULL
  /\ codes00 = NULL /\ file00 = NoFile
  /\ tamper00 = NULL /\ in00 = NoFile /\ dpc00 = "idle" /\ dsize00 = 0 /\ dfreq00 = NULL
  /\ droot00 = NULL /\ current_node = UNINIT /\ bitpos00 = [byte |-> 0, i |-> 0]
  /\ decoded_count = 0 /\ out00 = NoFile

\* encodeFile, 1: fopen the input (it exists, or exit(1)) and count.
Enc00Count ==
  /\ pc00 = "start"
  /\ \/ LET st == countLoop00(data, 1, [freq |-> [s \in 0 .. MAX_CHARS - 1 |-> 0],
                                        size |-> 0])
        IN  freq00' = st.freq /\ original_file_size' = st.size /\ pc00' = "tree"
     \/ pc00' = "exit1" /\ UNCHANGED <<freq00, original_file_size>>
  /\ UNCHANGED <<data, encVars, decVars, tabVars, first, pqVars, mrgVars,
                 root00, codes00, file00, dec00Vars>>

\* encodeFile, 2: the tree and the codes.
Enc00Tree ==
  /\ pc00 = "tree"
  /\ root00' = buildHuffmanTree00(freq00)
  /\ codes00' = Codes00(root00')
  /\ pc00' = "write"
  /\ UNCHANGED <<data, encVars, decVars, tabVars, first, pqVars, mrgVars,
                 original_file_size, freq00, file00, dec00Vars>>

\* encodeFile, 3: fopen the output (or exit(1)), the header, the bitstream;
\* then main returns 0.
Enc00Write ==
  /\ pc00 = "write"
  /\ \/ /\ file00' = [size |-> original_file_size, freq |-> freq00,
                       body |-> flush00(writeBody00(data, 1, codes00,
                                   [out |-> <<>>, buffer |-> 0, bit_count |-> 0]))]
        /\ pc00' = "exit0"
     \/ pc00' = "exit1" /\ UNCHANGED file00
  /\ UNCHANGED <<data, encVars, decVars, tabVars, first, pqVars, mrgVars,
                 original_file_size, freq00, root00, codes00, dec00Vars>>

\* What may have happened to the .enc file: nothing, one bit of the
\* bitstream inverted, or the file cut within its frequency table.
NoTamper00 == [kind |-> "none", arg |-> 0]

Tampers00(file) ==
  {NoTamper00, [kind |-> "cut", arg |-> 0]}
  \cup {[kind |-> "flip", arg |-> b] : b \in 0 .. 8 * Len(file.body) - 1}

Damage00(file, t) ==
  CASE t.kind = "none" -> file
    [] t.kind = "cut"  -> [file EXCEPT !.freq = NULL, !.body = <<>>]
    [] t.kind = "flip" ->
         [file EXCEPT !.body[(t.arg \div 8) + 1] =
                         FlipBit(file.body[(t.arg \div 8) + 1], 7 - (t.arg % 8))]

\* The encoder has returned 0; the decoder is started on its .enc file.
Transfer00 ==
  /\ pc00 = "exit0"
  /\ dpc00 = "idle"
  /\ \E t \in Tampers00(file00) : tamper00' = t /\ in00' = Damage00(file00, t)
  /\ dpc00' = "read"
  /\ UNCHANGED <<data, encVars, decVars, tabVars, first, pqVars, mrgVars, enc00Vars,
                 dsize00, dfreq00, droot00, current_node, bitpos00, decoded_count, out00>>

\* decodeFile, 1: the two fread of the header.
Dec00ReadHeader ==
  /\ dpc00 = "read"
  /\ IF in00.freq = NULL
     THEN dpc00' = "exit1" /\ dsize00' = in00.size /\ UNCHANGED dfreq00
     ELSE dpc00' = "tree" /\ dsize00' = in00.size /\ dfreq00' = in00.freq
  /\ UNCHANGED <<data, encVars, decVars, tabVars, first, pqVars, mrgVars, enc00Vars,
                 tamper00, in00, droot00, current_node, bitpos00, decoded_count, out00>>

\* decodeFile, 2: the tree.
Dec00Tree ==
  /\ dpc00 = "tree"
  /\ droot00' = buildHuffmanTree00(dfreq00)
  /\ dpc00' = IF droot00' = NULL \/ (IsLeaf(droot00') /\ droot00'.freq = 0)
              THEN "special" ELSE "open_out"
  /\ UNCHANGED <<data, encVars, decVars, tabVars, first, pqVars, mrgVars, enc00Vars,
                 tamper00, in00, dsize00, dfreq00, current_node, bitpos00, decoded_count,
                 out00>>

\* "Handle empty or single-character file case": the output is opened, or
\* is not and nothing is said; decodeFile returns and main returns 0.
Dec00Special ==
  /\ dpc00 = "special"
  /\ \/ out00' = [body |-> IF dsize00 > 0 /\ droot00 # NULL /\ droot00.freq > 0
                            THEN [k \in 1 .. dsize00 |-> droot00.data] ELSE <<>>]
     \/ UNCHANGED out00
  /\ dpc00' = "exit0"
  /\ UNCHANGED <<data, encVars, decVars, tabVars, first, pqVars, mrgVars, enc00Vars,
                 tamper00, in00, dsize00, dfreq00, droot00, current_node, bitpos00,
                 decoded_count>>

\* current_node = root; fopen the output, or exit(1).
Dec00OpenOutput ==
  /\ dpc00 = "open_out"
  /\ current_node' = droot00
  /\ \/ out00' = [body |-> <<>>] /\ dpc00' = "fetch"
     \/ dpc00' = "exit1" /\ UNCHANGED out00
  /\ UNCHANGED <<data, encVars, decVars, tabVars, first, pqVars, mrgVars, enc00Vars,
                 tamper00, in00, dsize00, dfreq00, droot00, bitpos00, decoded_count>>

\* The condition of `while (decoded_count < original_file_size && (c =
\* fgetc(input_file)) != EOF)`; when it fails: cleanup, return, and main
\* returns 0.
Dec00Fetch ==
  /\ dpc00 = "fetch"
  /\ IF decoded_count < dsize00 /\ bitpos00.byte < Len(in00.body)
     THEN bitpos00' = [byte |-> bitpos00.byte + 1, i |-> 7] /\ dpc00' = "bit"
     ELSE dpc00' = "exit0" /\ UNCHANGED bitpos00
  /\ UNCHANGED <<data, encVars, decVars, tabVars, first, pqVars, mrgVars, enc00Vars,
                 tamper00, in00, dsize00, dfreq00, droot00, current_node, decoded_count,
                 out00>>

\* One turn of `for (int i = 7; i >= 0; i--)`.  On a NULL child: the
\* message, goto cleanup, return, and main returns 0.
Dec00Bit ==
  /\ dpc00 = "bit"
  /\ IF bitpos00.i < 0 \/ decoded_count >= dsize00
     THEN dpc00' = "fetch" /\ UNCHANGED <<bitpos00, current_node, decoded_count, out00>>
     ELSE LET bit == (in00.body[bitpos00.byte] \div Pow2(bitpos00.i)) % 2
              next == IF bit = 0 THEN current_node.left ELSE current_node.right
          IN  IF next = NULL
              THEN /\ current_node' = NULL
                   /\ dpc00' = "exit0"
                   /\ UNCHANGED <<bitpos00, decoded_count, out00>>
              ELSE /\ bitpos00' = [bitpos00 EXCEPT !.i = bitpos00.i - 1]
                   /\ UNCHANGED dpc00
                   /\ IF IsLeaf(next)
                      THEN /\ out00' = [body |-> Append(out00.body, next.data)]
                           /\ decoded_count' = decoded_count + 1
                           /\ current_node' = droot00
                      ELSE /\ current_node' = next
                           /\ UNCHANGED <<decoded_count, out00>>
  /\ UNCHANGED <<data, encVars, decVars, tabVars, first, pqVars, mrgVars, enc00Vars,
                 tamper00, in00, dsize00, dfreq00, droot00>>

Next00 ==
  \/ Enc00Count \/ Enc00Tree \/ Enc00Write \/ Transfer00
  \/ Dec00ReadHeader \/ Dec00Tree \/ Dec00Special \/ Dec00OpenOutput
  \/ Dec00Fetch \/ Dec00Bit

Spec00 == Init00 /\ [][Next00]_vars

(***************************************************************************)
(* Properties of the code tables (SpecTable).                              *)
(***************************************************************************)
\* a is b or a proper start of b
IsPrefix(a, b) == Len(a) <= Len(b) /\ SubSeq(b, 1, Len(a)) = a

\* The symbols with a nonzero count in a table.
Coded(ftab) == {s \in 0 .. MAXN - 1 : ftab[s] > 0}

\* C3: prefix-freedom.  For a table with at least two nonzero entries, in
\* the codes generateCodes stored (huffman-01) and in those storeCodes stored
\* (huffman-00), every symbol with a nonzero count has a code of length at
\* least 1 and no such symbol's code is a prefix of, or equal to, another's.
C3_PrefixFree ==
  Cardinality(Coded(t_freq)) >= 2 =>
    /\ (t_codes01 # NULL =>
          /\ \A s \in Coded(t_freq) : t_codes01[s].len >= 1
          /\ \A s, t \in Coded(t_freq) :
                s # t => ~IsPrefix(CodeSeq(t_codes01[s]), CodeSeq(t_codes01[t])))
    /\ (t_codes00 # NULL =>
          /\ \A s \in Coded(t_freq) : t_codes00[s] # NULL /\ Len(t_codes00[s].str) >= 1
          /\ \A s, t \in Coded(t_freq) :
                s # t => ~IsPrefix(t_codes00[s].str, t_codes00[t].str))

\* Every node below and including node has no child or two.
RECURSIVE StrictTree(_)
StrictTree(node) ==
  \/ IsLeaf(node)
  \/ /\ node.left # NULL /\ node.right # NULL
     /\ StrictTree(node.left) /\ StrictTree(node.right)

\* C11: strict binary tree.  For every frequency table, in the tree
\* buildHuffmanTree returned (huffman-01 and huffman-00) every node has no
\* child or exactly two, never exactly one.
C11_StrictTree ==
  /\ (t_root01 # NULL => StrictTree(t_root01))
  /\ (t_root00 # NULL => StrictTree(t_root00))

\* For every leaf below node, reached from the root by the edges of path
\* (0 left, 1 right) and then those from node on, the entry of tab for the
\* leaf's symbol has the length of that path and its bits.
RECURSIVE CodesArePaths(_, _, _)
CodesArePaths(node, path, tab) ==
  IF IsLeaf(node)
  THEN tab[node.ch].len = Len(path) /\ CodeSeq(tab[node.ch]) = path
  ELSE /\ (node.left # NULL => CodesArePaths(node.left, Append(path, 0), tab))
       /\ (node.right # NULL => CodesArePaths(node.right, Append(path, 1), tab))

\* C20: the code is the tree path at every depth.  For every tree
\* buildHuffmanTree returns with more than one node, the code generateCodes
\* stored for every leaf at depth d has length d and the bits of the path
\* from the root (0 for a left edge, 1 for a right edge), also for d > 32.
C20_CodeIsPath ==
  t_codes01 # NULL /\ t_root01 # NULL /\ ~IsLeaf(t_root01) =>
    CodesArePaths(t_root01, <<>>, t_codes01)

(***************************************************************************)
(* Properties of the huffman-00 pipeline (Spec00).                         *)
(***************************************************************************)
\* C21: round trip (huffman-00).  When dec.c runs on the .enc file enc.c
\* wrote for a buffer, its tree is the encoder's tree, what it has written
\* is always the first decoded_count bytes of the buffer, its walk never
\* leaves the tree, and when it returns with its output opened the output
\* is the buffer; for a buffer of one repeated byte value the root has only
\* a left child, the leaf, and the code is "0".
C21_RoundTrip00 ==
  tamper00 = NoTamper00 =>
    /\ (droot00 # NULL => droot00 = root00)
    /\ current_node # NULL
    /\ (out00 # NoFile => /\ decoded_count <= Len(data)
                          /\ out00.body = SubSeq(data, 1, decoded_count))
    /\ (dpc00 = "exit0" /\ out00 # NoFile => out00.body = data)
    /\ (dpc00 = "exit0" /\ out00 = NoFile => data = <<>>)
    /\ (dpc00 # "idle" /\ Cardinality(Distinct(data)) = 1 =>
          /\ ~IsLeaf(root00) /\ IsLeaf(root00.left) /\ root00.right = NULL
          /\ codes00[data[1]] = [str |-> <<0>>])

C21_Witness ==
  /\ tamper00 = NoTamper00 /\ dpc00 = "exit0" /\ out00 # NoFile /\ out00.body = data
  /\ Cardinality(Distinct(data)) = 3 /\ Len(data) = 6 /\ Len(in00.body) = 2
  /\ droot00 = root00

\* C22: a walk off the tree is a fatal decode error (huffman-00).  When a
\* bit has driven the walk to a child that does not exist, the program does
\* not end with exit status 0 and the output written so far is not left in
\* place.
C22_WalkOffIsFatal ==
  current_node = NULL => dpc00 # "exit0" /\ out00 = NoFile

(***************************************************************************)
(* Properties of the merge loop (SpecMerge).                               *)
(***************************************************************************)
\* The leaves below and including node, as pairs of symbol and frequency.
RECURSIVE LeafSet(_)
LeafSet(node) ==
  IF IsLeaf(node) THEN {<<node.ch, node.freq>>}
  ELSE (IF node.left = NULL THEN {} ELSE LeafSet(node.left))
       \cup (IF node.right = NULL THEN {} ELSE LeafSet(node.right))

\* The number of leaves, and of nodes with a child, below and including node.
RECURSIVE LeafCount(_)
LeafCount(node) ==
  IF IsLeaf(node) THEN 1
  ELSE (IF node.left = NULL THEN 0 ELSE LeafCount(node.left))
       + (IF node.right = NULL THEN 0 ELSE LeafCount(node.right))

RECURSIVE InternalCount(_)
InternalCount(node) ==
  IF IsLeaf(node) THEN 0
  ELSE 1 + (IF node.left = NULL THEN 0 ELSE InternalCount(node.left))
         + (IF node.right = NULL THEN 0 ELSE InternalCount(node.right))

\* The sum of the counts of a table over the symbols of S.
RECURSIVE SumOver(_, _)
SumOver(ftab, S) ==
  IF S = {} THEN 0
  ELSE LET s == CHOOSE x \in S : TRUE IN ftab[s] + SumOver(ftab, S \ {s})

\* The nodes in the slots 1..n of a queue.
InQueue(q) == {q.heap[i] : i \in 1 .. q.n}

C23_CounterIsQueueSize ==
  LET k == Cardinality(Coded(m_freq))
  IN  m_pc # "start" =>
        /\ m_st.pq.maxN = MAXN /\ m_st.pq.n <= MAXN
        /\ (m_pc \in {"loop", "return"} =>
              /\ m_st.symbols = m_st.pq.n
              /\ m_st.pq.n = k - m_turns
              /\ (m_turns > 0 => m_left # NULL /\ m_right # NULL))
        /\ (m_pc = "done" =>
              /\ m_st.pq.n = 0
              /\ (k >= 1 => m_root # NULL)
              /\ (k = 0 => m_root = NULL)
              /\ (k >= 2 => m_left # NULL /\ m_right # NULL /\ m_st.symbols = 1))

C23_Witness ==
  /\ m_pc = "done" /\ Cardinality(Coded(m_freq)) = MAXN /\ m_turns = MAXN - 1
  /\ m_st.pq.n = 0 /\ m_root # NULL /\ LeafCount(m_root) = MAXN

(***************************************************************************)
(* Properties of the priority queue (SpecPQ).                              *)
(***************************************************************************)
\* heap[k/2]->freq <= heap[k]->freq for every k in 2..n
HeapOrdered(q) == \A k \in 2 .. q.n : q.heap[k \div 2].freq <= q.heap[k].freq

\* How often node x is in the slots 1..n.
Count(q, x) == Cardinality({i \in 1 .. q.n : q.heap[i] = x})

\* The queue q holds what the queue w held, and node x `more` times more.
HoldsMore(q, w, x, more) ==
  \A y \in InQueue(q) \cup InQueue(w) \cup {x} :
     Count(q, y) = Count(w, y) + (IF y = x THEN more ELSE 0)

\* C17: min-heap order.  After any calls of PQinsert and PQdelmin on a queue
\* from PQinit(maxN): heap[k/2]->freq <= heap[k]->freq for every k in 2..n,
\* and n is in 0..maxN; a PQdelmin on a non-empty queue returned a node of the
\* queue whose frequency is at most that of every node left, and made n one
\* less; the queued nodes are those queued before the call, with the node
\* inserted (when there was room) or without the node extracted.
C17_MinHeap ==
  queue # NULL =>
    /\ HeapOrdered(queue)
    /\ queue.n \in 0 .. queue.maxN
    /\ (q_call.op = "PQdelmin" /\ q_call.was.n > 0 =>
          /\ q_call.ret \in InQueue(q_call.was)
          /\ \A x \in InQueue(queue) : q_call.ret.freq <= x.freq
          /\ queue.n = q_call.was.n - 1
          /\ HoldsMore(q_call.was, queue, q_call.ret, 1))
    /\ (q_call.op = "PQinsert" /\ q_call.was.n < q_call.was.maxN =>
          /\ queue.n = q_call.was.n + 1
          /\ HoldsMore(queue, q_call.was, q_call.item, 1))

C17_Witness ==
  /\ queue # NULL /\ q_call.op = "PQdelmin" /\ q_call.was.n = MaxPQ
  /\ queue.n = MaxPQ - 1 /\ q_call.ret.freq < queue.heap[1].freq
  /\ queue.heap[2].freq > queue.heap[3].freq

\* C18: boundary calls leave the queue as it was.  PQinsert on a queue that
\* holds maxN nodes changes neither n nor any slot of heap; PQdelmin on an
\* empty queue returns NULL and leaves n = 0; neither touches a slot of heap,
\* and no call reads or writes a slot outside heap[1..maxN].
C18_BoundaryCalls ==
  queue # NULL =>
    /\ (q_call.op = "PQinsert" /\ q_call.was.n = q_call.was.maxN =>
          queue = q_call.was /\ q_call.touched = {})
    /\ (q_call.op = "PQdelmin" /\ q_call.was.n = 0 =>
          q_call.ret = NULL /\ queue = q_call.was /\ queue.n = 0 /\ q_call.touched = {})
    /\ q_call.touched \subseteq 1 .. queue.maxN
    /\ DOMAIN queue.heap = 0 .. queue.maxN
    /\ queue.heap[0] = UNINIT

C18_Witness ==
  /\ queue # NULL /\ q_call.op = "PQinsert" /\ q_call.was.n = q_call.was.maxN
  /\ queue.maxN = MaxPQ /\ queue = q_call.was /\ q_call.item.freq < queue.heap[1].freq

C18_WitnessEmpty ==
  /\ queue # NULL /\ q_call.op = "PQdelmin" /\ q_call.was.n = 0 /\ q_call.ret = NULL
  /\ queue.n = 0 /\ queue.maxN > 0 /\ queue.heap[1] # UNINIT

=============================================================================
